---- MODULE Spec2Model ----
(***************************************************************************)
(* Model of the fitness-evaluation engine of the 3D bin packing program    *)
(* (src/Problem.py): the Problem record, Placement.Bin with its EMS list,  *)
(* the solution decoder and Placement.evaluate.                            *)
(*                                                                         *)
(* Representation notes.                                                   *)
(*  - Python lists and tuples are TLA+ sequences; indices are 1-based, so  *)
(*    orders[i] here is numpy's orders[i-1] + 1.                           *)
(*  - None is the empty tuple.                                             *)
(*  - A gene is the rational g / GeneDen, carried as its numerator g.      *)
(*  - A fitness f is carried as the integer f * bin_volume, that is        *)
(*    used_bins * bin_volume + min(loads); np.inf is Inf.                  *)
(***************************************************************************)
EXTENDS Integers, Sequences, FiniteSets, TLC

\* ------------------------------------------------------------------ bounds
MaxItems == 3       \* largest total_items of a single evaluate call
MaxTwinItems == 2   \* largest total_items when one vector is evaluated again
MaxRunItems == 1    \* largest total_items when a run of vectors is evaluated
MaxCalls == 3       \* evaluate calls against one Problem record
MaxGene == 2        \* gene numerators are 0..MaxGene
GeneDen == 3        \* gene denominator
MaxExt == 2         \* item extents offered to a single bin are 0..MaxExt
MaxPlace == 3       \* placements into a single bin

None == <<>>
Inf == -1

VARIABLES
    bin_size,       \* Problem.bin_size
    total_items,    \* Problem.total_items
    items,          \* Problem.items, the list Placement.items aliases
    p_used_bins,    \* Problem.used_bins
    p_loads,        \* Problem.loads
    best_fitness,   \* Problem.best_fitness
    bins,           \* Placement.bins
    used_bins,      \* Placement.used_bins
    loads,          \* Placement.loads
    pc,             \* where the caller / the running evaluate call is
    k,              \* index of the next item of "for item in self.items"
    solution,       \* the vector the caller holds and passes to evaluate
    fitness,        \* the value evaluate returned
    err,            \* the exception evaluate raised, or "none"
    calls,          \* engines constructed so far
    call_cap,       \* engines the caller constructs in this run
    canon,          \* history: Problem.items as loaded
    placed,         \* history: the update calls of this engine, in order
    last,           \* history: the most recent pass of the item loop
    snap,           \* history: the state when evaluate was called
    history         \* history: the successful evaluate calls, in order

vars == <<bin_size, total_items, items, p_used_bins, p_loads, best_fitness,
          bins, used_bins, loads, pc, k, solution, fitness, err, calls,
          call_cap, canon, placed, last, snap, history>>

\* ------------------------------------------------------------ small helpers
Volume(e) == e[1] * e[2] * e[3]

\* np.min over a non-empty list
MinOf(s) == CHOOSE m \in {s[i] : i \in 1..Len(s)} : \A i \in 1..Len(s) : m <= s[i]

\* Python tuple comparison a >= b and a <= b (lexicographic)
TupleGe(a, b) ==
    \/ a[1] > b[1]
    \/ a[1] = b[1] /\ a[2] > b[2]
    \/ a[1] = b[1] /\ a[2] = b[2] /\ a[3] >= b[3]

TupleLe(a, b) ==
    \/ a[1] < b[1]
    \/ a[1] = b[1] /\ a[2] < b[2]
    \/ a[1] = b[1] /\ a[2] = b[2] /\ a[3] <= b[3]

\* list.remove(x): drops the first element equal to x
RECURSIVE ListRemove(_, _)
ListRemove(s, x) ==
    IF s = <<>> THEN <<>>
    ELSE IF Head(s) = x THEN Tail(s)
    ELSE <<Head(s)>> \o ListRemove(Tail(s), x)

\* ------------------------------------------------------------ Placement.Bin
NewBin(size) == [size |-> size, EMSs |-> << <<(<<0, 0, 0>>), size>> >>, load |-> 0]

fit(item, EMS) == \A i \in 1..3 : ~(EMS[1][i] + item[i] > EMS[2][i])

distance(size, item, EMS) ==
    (size[1] - (EMS[1][1] + item[1])) * (size[1] - (EMS[1][1] + item[1]))
  + (size[2] - (EMS[1][2] + item[2])) * (size[2] - (EMS[1][2] + item[2]))
  + (size[3] - (EMS[1][3] + item[3])) * (size[3] - (EMS[1][3] + item[3]))

RECURSIVE chooseFrom(_, _, _, _, _, _)
chooseFrom(size, EMSs, item, i, max_distance, selected_EMS) ==
    IF i > Len(EMSs) THEN selected_EMS
    ELSE IF fit(item, EMSs[i]) /\ distance(size, item, EMSs[i]) > max_distance
         THEN chooseFrom(size, EMSs, item, i + 1, distance(size, item, EMSs[i]), EMSs[i])
         ELSE chooseFrom(size, EMSs, item, i + 1, max_distance, selected_EMS)

choose(bin, item) == chooseFrom(bin.size, bin.EMSs, item, 1, -1, None)

inscribed(EMS1, EMS2) == TupleGe(EMS1[1], EMS2[1]) /\ TupleLe(EMS1[2], EMS2[2])

\* the three regions update builds from the chosen EMS, X-face first
new_EMSs(item, selected_EMS) ==
    LET x1 == selected_EMS[1][1]
        y1 == selected_EMS[1][2]
        z1 == selected_EMS[1][3]
        x2 == x1 + item[1]
        y2 == y1 + item[2]
        z2 == z1 + item[3]
        far == selected_EMS[2]
    IN << <<(<<x2, y1, z1>>), far>>,
          <<(<<x1, y2, z1>>), far>>,
          <<(<<x1, y1, z2>>), far>> >>

\* isValid with the inscribed test left out
isValidNoPrune(EMS, EMSs) == \A i \in 1..3 : ~(EMS[1][i] >= EMS[2][i])

\* the isValid test of update for one candidate against the list as it stands
isValid(EMS, EMSs) ==
    /\ \A i \in 1..3 : ~(EMS[1][i] >= EMS[2][i])
    /\ \A j \in 1..Len(EMSs) : ~inscribed(EMS, EMSs[j])

RECURSIVE appendValid(_, _, _)
appendValid(EMSs, cands, i) ==
    IF i > Len(cands) THEN EMSs
    ELSE IF isValid(cands[i], EMSs)
         THEN appendValid(Append(EMSs, cands[i]), cands, i + 1)
         ELSE appendValid(EMSs, cands, i + 1)

\* the load increment with the Z extent left out
itemLoadFlat(item) == item[1] * item[2]

\* the volume update adds to the bin's load
itemLoad(item) == item[1] * item[2] * item[3]

update(bin, item, selected_EMS) ==
    [size |-> bin.size,
     EMSs |-> appendValid(ListRemove(bin.EMSs, selected_EMS),
                          new_EMSs(item, selected_EMS), 1),
     load |-> bin.load + itemLoad(item)]

\* -------------------------------------------------------- solution decoder
get_orientation(gene) == (6 * gene + GeneDen - 1) \div GeneDen

get_size(item, orientation) ==
    CASE orientation = 1 -> <<item[1], item[2], item[3]>>
      [] orientation = 2 -> <<item[1], item[3], item[2]>>
      [] orientation = 3 -> <<item[2], item[1], item[3]>>
      [] orientation = 4 -> <<item[2], item[3], item[1]>>
      [] orientation = 5 -> <<item[3], item[1], item[2]>>
      [] orientation = 6 -> <<item[3], item[2], item[1]>>
      [] OTHER -> None

\* np.argsort of a short array: position of each key in ascending order, equal
\* keys in index order
Rank(keys, j) ==
    Cardinality({m \in 1..Len(keys) :
                    keys[m] < keys[j] \/ (keys[m] = keys[j] /\ m < j)}) + 1

argsort(keys) ==
    [i \in 1..Len(keys) |-> CHOOSE j \in 1..Len(keys) : Rank(keys, j) = i]

\* the loop of decode, writing into the list it reads from
RECURSIVE decodeLoop(_, _, _, _, _)
decodeLoop(its, sol, orders, n, i) ==
    IF i > n THEN [items |-> its, raised |-> "none"]
    ELSE IF its[i] = None THEN [items |-> its, raised |-> "TypeError"]
    ELSE decodeLoop(
            [its EXCEPT ![orders[i]] = get_size(its[i], get_orientation(sol[n + i]))],
            sol, orders, n, i + 1)

decode(its, sol, n) ==
    IF Len(sol) # 2 * n THEN [items |-> its, raised |-> "ValueError"]
    ELSE decodeLoop(its, sol, argsort(SubSeq(sol, 1, n)), n, 1)

\* ------------------------------------------------------- Placement.evaluate
\* the "for bin in self.bins" loop of one item; the list grows while it is
\* walked, and a bin is named by its index (0 is None)
RECURSIVE scanBins(_, _, _, _, _, _)
scanBins(bs, ub, item, i, selected_bin, selected_EMS) ==
    IF i > Len(bs)
    THEN [bins |-> bs, used_bins |-> ub, selected_bin |-> selected_bin,
          selected_EMS |-> selected_EMS, raised |-> "none"]
    ELSE IF item = None /\ bs[i].EMSs # <<>>
    THEN [bins |-> bs, used_bins |-> ub, selected_bin |-> selected_bin,
          selected_EMS |-> selected_EMS, raised |-> "TypeError"]
    ELSE LET EMS == choose(bs[i], item)
             sb == IF EMS # None THEN i ELSE selected_bin
             se == IF EMS # None THEN EMS ELSE selected_EMS
         IN IF sb = 0
            THEN scanBins(Append(bs, NewBin(bs[i].size)), ub + 1, item, i + 1,
                          Len(bs) + 1, NewBin(bs[i].size).EMSs[1])
            ELSE scanBins(bs, ub, item, i + 1, sb, se)

\* one pass of "for item in self.items": the bin loop, then update
placeItem(bs, ub, item) ==
    LET r == scanBins(bs, ub, item, 1, 0, None)
    IN IF r.raised # "none" THEN r
       ELSE [r EXCEPT !.bins = [r.bins EXCEPT ![r.selected_bin] =
                                   update(@, item, r.selected_EMS)]]

\* the whole "for item in self.items" loop
RECURSIVE packLoop(_, _, _, _)
packLoop(bs, ub, its, i) ==
    IF i > Len(its) THEN [bins |-> bs, used_bins |-> ub, raised |-> "none"]
    ELSE LET r == placeItem(bs, ub, its[i])
         IN IF r.raised # "none"
            THEN [bins |-> r.bins, used_bins |-> r.used_bins, raised |-> r.raised]
            ELSE packLoop(r.bins, r.used_bins, its, i + 1)

binLoads(bs) == [i \in 1..Len(bs) |-> bs[i].load]

\* fitness * bin_volume
Fitness(ub, lds, size) == ub * Volume(size) + MinOf(lds)

\* the comparison with <= for <
ImprovesOrTies(f, best) == best = Inf \/ f <= best

\* fitness < self.problem.best_fitness
Improves(f, best) == best = Inf \/ f < best

\* the Problem record's best state after a call that scored f
reportBest(f, ub, lds, best, rec_used, rec_loads) ==
    IF Improves(f, best)
    THEN [used_bins |-> ub, best_fitness |-> f, loads |-> lds]
    ELSE [used_bins |-> rec_used, best_fitness |-> best, loads |-> rec_loads]

\* decode, the item loop and the score of one evaluate call; loads and fitness
\* are meaningful when nothing was raised
evaluate(its, bs, ub, sol, n, size) ==
    LET d == decode(its, sol, n)
    IN IF d.raised # "none"
       THEN [items |-> d.items, bins |-> bs, used_bins |-> ub,
             raised |-> d.raised, loads |-> None, fitness |-> 0]
       ELSE LET p == packLoop(bs, ub, d.items, 1)
            IN IF p.raised # "none"
               THEN [items |-> d.items, bins |-> p.bins, used_bins |-> p.used_bins,
                     raised |-> p.raised, loads |-> None, fitness |-> 0]
               ELSE [items |-> d.items, bins |-> p.bins, used_bins |-> p.used_bins,
                     raised |-> "none", loads |-> binLoads(p.bins),
                     fitness |-> Fitness(p.used_bins, binLoads(p.bins), size)]

\* ------------------------------------------------------------------ inputs
\* extents the generator can cut out of a bin of this size
ItemPool(size) ==
    {<<x, y, z>> : x \in 1..size[1], y \in 1..size[2], z \in 1..size[3]}

Genes == 0..MaxGene

\* the vectors a caller passes for n items: every vector of the right length,
\* and one of each wrong length (decode reads only the length of those);
\* a caller that already holds a vector passes that one again
Vectors(n, held) ==
    IF held # <<>> THEN {held}
    ELSE [1..(2 * n) -> Genes]
         \cup {[i \in 1..len |-> 0] : len \in (1..(2 * n + 1)) \ {2 * n}}

EngineBinSize == <<2, 1, 1>>

RunBinSizes == {<<2, 2, 1>>, <<1, 2, 2>>}

SingleBinSize == <<2, 2, 2>>

NoPass == [item |-> None, opened |-> FALSE, open_fit |-> FALSE, bin |-> 0, EMS |-> None]

Snapshot == [items |-> items, bins |-> bins, used_bins |-> used_bins,
             p_used_bins |-> p_used_bins, p_loads |-> p_loads,
             best_fitness |-> best_fitness]

\* ------------------------------------------------------------------- states
\* Problem.__init__ for a file of n items, before any engine exists
Loaded(size, n, cap) ==
    /\ bin_size = size
    /\ total_items = n
    /\ items \in [1..n -> ItemPool(size)]
    /\ p_used_bins = total_items
    /\ p_loads = None
    /\ best_fitness = Inf
    /\ bins = <<>>
    /\ used_bins = 0
    /\ loads = None
    /\ pc = "idle"
    /\ k = 0
    /\ solution = <<>>
    /\ fitness = 0
    /\ err = "none"
    /\ calls = 0
    /\ call_cap = cap
    /\ canon = items
    /\ placed = <<>>
    /\ last = NoPass
    /\ snap = Snapshot
    /\ history = <<>>

\* one evaluate call on one engine
Init == \E n \in 1..MaxItems : Loaded(EngineBinSize, n, 1)

\* one vector evaluated on several engines in turn
TwinInit == \E n \in 1..MaxTwinItems : Loaded(EngineBinSize, n, MaxCalls)

\* several vectors evaluated in turn, each on its own engine
RunInit ==
    \E size \in RunBinSizes : \E n \in 1..MaxRunItems : Loaded(size, n, MaxCalls)

\* Placement.__init__: a fresh engine on the Problem record
Construct ==
    /\ pc \in {"idle", "done"}
    /\ calls < call_cap
    /\ bins' = <<NewBin(bin_size)>>
    /\ used_bins' = 1
    /\ loads' = None
    /\ pc' = "ready"
    /\ k' = 0
    /\ calls' = calls + 1
    /\ placed' = <<>>
    /\ last' = NoPass
    /\ UNCHANGED <<bin_size, total_items, items, p_used_bins, p_loads,
                   best_fitness, solution, fitness, err, call_cap, canon,
                   snap, history>>

\* evaluate, line 137: self.decode(solution)
EvaluateDecode ==
    /\ pc = "ready"
    /\ \E sol \in Vectors(total_items, solution) :
          LET d == decode(items, sol, total_items)
          IN /\ solution' = sol
             /\ items' = d.items
             /\ err' = d.raised
             /\ pc' = IF d.raised = "none" THEN "packing" ELSE "failed"
    /\ k' = 1
    /\ snap' = Snapshot
    /\ UNCHANGED <<bin_size, total_items, p_used_bins, p_loads, best_fitness,
                   bins, used_bins, loads, fitness, calls, call_cap, canon,
                   placed, last, history>>

\* evaluate, lines 139-155: one pass of "for item in self.items"
EvaluatePlace ==
    /\ pc = "packing"
    /\ k <= Len(items)
    /\ \E item \in {items[k]} :
       \E r \in {placeItem(bins, used_bins, item)} :
          /\ bins' = r.bins
          /\ used_bins' = r.used_bins
          /\ IF r.raised # "none"
             THEN /\ pc' = "failed"
                  /\ err' = r.raised
                  /\ UNCHANGED <<k, placed, last>>
             ELSE /\ k' = k + 1
                  /\ placed' = Append(placed, [bin |-> r.selected_bin,
                                               pos |-> r.selected_EMS[1],
                                               ext |-> item])
                  /\ last' = [item |-> item,
                              opened |-> Len(r.bins) > Len(bins),
                              open_fit |-> \E b \in 1..Len(bins) :
                                              choose(bins[b], item) # None,
                              bin |-> r.selected_bin,
                              EMS |-> r.selected_EMS]
                  /\ UNCHANGED <<pc, err>>
    /\ UNCHANGED <<bin_size, total_items, items, p_used_bins, p_loads,
                   best_fitness, loads, solution, fitness, calls, call_cap,
                   canon, snap, history>>

\* evaluate, lines 157-166: score the packing and report an improvement
EvaluateScore ==
    /\ pc = "packing"
    /\ k > Len(items)
    /\ LET lds == binLoads(bins)
           f == Fitness(used_bins, lds, bin_size)
           b == reportBest(f, used_bins, lds, best_fitness, p_used_bins, p_loads)
       IN /\ loads' = lds
          /\ fitness' = f
          /\ p_used_bins' = b.used_bins
          /\ best_fitness' = b.best_fitness
          /\ p_loads' = b.loads
          /\ history' = Append(history, [items |-> items, used_bins |-> used_bins,
                                         loads |-> lds, fitness |-> f])
    /\ pc' = "done"
    /\ UNCHANGED <<bin_size, total_items, items, bins, used_bins, k, solution,
                   err, calls, call_cap, canon, placed, last, snap>>

\* evaluate as one step, for a caller that passes a new vector to every engine
Evaluate ==
    /\ pc = "ready"
    /\ \E sol \in Vectors(total_items, <<>>) :
       \E r \in {evaluate(items, bins, used_bins, sol, total_items, bin_size)} :
          /\ items' = r.items
          /\ bins' = r.bins
          /\ used_bins' = r.used_bins
          /\ err' = r.raised
          /\ IF r.raised # "none"
             THEN /\ pc' = "failed"
                  /\ UNCHANGED <<loads, fitness, p_used_bins, best_fitness,
                                 p_loads, history>>
             ELSE \E b \in {reportBest(r.fitness, r.used_bins, r.loads,
                                       best_fitness, p_used_bins, p_loads)} :
                  /\ pc' = "done"
                  /\ loads' = r.loads
                  /\ fitness' = r.fitness
                  /\ p_used_bins' = b.used_bins
                  /\ best_fitness' = b.best_fitness
                  /\ p_loads' = b.loads
                  /\ history' = Append(history,
                                       [items |-> r.items,
                                        used_bins |-> r.used_bins,
                                        loads |-> r.loads,
                                        fitness |-> r.fitness])
    /\ snap' = Snapshot
    /\ UNCHANGED <<bin_size, total_items, k, solution, calls, call_cap, canon,
                   placed, last>>

\* a single bin filled the way evaluate fills one: choose, then update
BinInit ==
    /\ bin_size = SingleBinSize
    /\ total_items = 0
    /\ items = <<>>
    /\ p_used_bins = 0
    /\ p_loads = None
    /\ best_fitness = Inf
    /\ bins = <<NewBin(SingleBinSize)>>
    /\ used_bins = 1
    /\ loads = None
    /\ pc = "bin"
    /\ k = 0
    /\ solution = <<>>
    /\ fitness = 0
    /\ err = "none"
    /\ calls = 0
    /\ call_cap = 0
    /\ canon = <<>>
    /\ placed = <<>>
    /\ last = NoPass
    /\ snap = Snapshot
    /\ history = <<>>

BinItems == {<<x, y, z>> : x \in 0..MaxExt, y \in 0..MaxExt, z \in 0..MaxExt}

\* evaluate, lines 144 and 155, on one bin: bin.choose(item), then
\* bin.update(item, EMS) when an EMS came back
PlaceInBin ==
    /\ pc = "bin"
    /\ Len(placed) < MaxPlace
    /\ \E item \in BinItems :
       \E EMS \in {choose(bins[1], item)} :
          /\ EMS # None
          /\ bins' = <<update(bins[1], item, EMS)>>
          /\ placed' = Append(placed, [bin |-> 1, pos |-> EMS[1], ext |-> item])
          /\ last' = [item |-> item, opened |-> FALSE, open_fit |-> TRUE,
                      bin |-> 1, EMS |-> EMS]
    /\ UNCHANGED <<bin_size, total_items, items, p_used_bins, p_loads,
                   best_fitness, used_bins, loads, pc, k, solution, fitness,
                   err, calls, call_cap, canon, snap, history>>

Next == Construct \/ EvaluateDecode \/ EvaluatePlace \/ EvaluateScore

RunNext == Construct \/ Evaluate

Spec == Init /\ [][Next]_vars

TwinSpec == TwinInit /\ [][Next]_vars

RunSpec == RunInit /\ [][RunNext]_vars

BinSpec == BinInit /\ [][PlaceInBin]_vars

\* ------------------------------------------------------------------- claims
\* sum of the volumes update was given for bin i by this engine
RECURSIVE placedVolume(_, _)
placedVolume(ps, i) ==
    IF ps = <<>> THEN 0
    ELSE (IF Head(ps).bin = i THEN Volume(Head(ps).ext) ELSE 0)
         + placedVolume(Tail(ps), i)

placedLoads == [i \in 1..Len(bins) |-> placedVolume(placed, i)]

\* C1: the value evaluate returns is (number of bins in the bin list) +
\* min over the bins of (sum of the volumes of the items update placed in
\* it) / bin volume, here times the bin volume; and the engine's loads are
\* those sums.
C1_FitnessIsBinsPlusLeastLoad ==
    pc = "done" =>
        /\ loads = placedLoads
        /\ fitness = Len(bins) * Volume(bin_size) + MinOf(placedLoads)

C1_Witness ==
    /\ pc = "done"
    /\ Len(bins) >= 2
    /\ Len(placed) >= 2
    /\ MinOf(placedLoads) > 0
    /\ \E j \in 1..Len(placed) : placed[j].ext[3] > 1

\* C2: a pass of the item loop appends a bin only when no bin that was open
\* when the item was taken up offers a fitting EMS.
C2_NewBinOnlyWhenNoOpenBinFits == last.opened => ~last.open_fit

\* every orientation gene of the vector maps into 1..6
orientationsValid ==
    /\ Len(solution) = 2 * total_items
    /\ \A i \in 1..total_items :
          get_orientation(solution[total_items + i]) \in 1..6

\* C3: after decode, position orders[i] of the working list holds the
\* oriented extent of canonical item i, for every i.
C3_DecodeIsReorientedPermutation ==
    (pc \in {"packing", "done"} /\ calls = 1 /\ orientationsValid) =>
        \A i \in 1..total_items :
            items[argsort(SubSeq(solution, 1, total_items))[i]]
                = get_size(canon[i], get_orientation(solution[total_items + i]))

\* C4: the same vector evaluated on two engines built on the same Problem
\* record, one after the other, gives the same decoded items, the same bin
\* loads and the same fitness.
C4_SameVectorSameResult ==
    \A i \in 2..Len(history) :
        /\ history[i].items = history[i - 1].items
        /\ history[i].loads = history[i - 1].loads
        /\ history[i].fitness = history[i - 1].fitness

\* A is inside B on each axis separately
inscribedByAxis(A, B) ==
    \A a \in 1..3 : A[1][a] >= B[1][a] /\ A[2][a] <= B[2][a]

pruned(EMSs) ==
    /\ \A i, j \in 1..Len(EMSs) : i # j => ~inscribedByAxis(EMSs[i], EMSs[j])
    /\ \A i \in 1..Len(EMSs) : \A a \in 1..3 : EMSs[i][1][a] < EMSs[i][2][a]

\* C5 as stated: after any run of choose/update placements of items with
\* non-negative extents, no retained EMS lies inside another retained EMS
\* and every retained EMS has positive extent on each axis.
C5_PrunedForNonNegativeItems == pc = "bin" => pruned(bins[1].EMSs)

allPlacedPositive ==
    \A j \in 1..Len(placed) : \A a \in 1..3 : placed[j].ext[a] > 0

\* C5 amended: the same, for items whose extents are all strictly positive.
C5_PrunedForPositiveItems ==
    (pc = "bin" /\ allPlacedPositive) => pruned(bins[1].EMSs)

C5_Witness ==
    /\ pc = "bin"
    /\ allPlacedPositive
    /\ Len(placed) >= 2
    /\ Len(bins[1].EMSs) >= 2

\* C6: every update call of evaluate is given an item that passes the fit
\* test on the EMS it is given, when the canonical items are no larger than
\* the bin and the orientation genes are valid.
C6_EveryPlacementFits ==
    (/\ pc \in {"packing", "done"}
     /\ last.bin # 0
     /\ orientationsValid
     /\ \A i \in 1..Len(canon) : \A a \in 1..3 : canon[i][a] <= bin_size[a])
    => fit(last.item, last.EMS)

minFitness == MinOf([i \in 1..Len(history) |-> history[i].fitness])

earliestBest ==
    CHOOSE j \in 1..Len(history) :
        /\ history[j].fitness = minFitness
        /\ \A i \in 1..(j - 1) : history[i].fitness # minFitness

\* C7: after every successful call the record's best_fitness is the least
\* fitness returned so far, and its used_bins and loads are those of the
\* earliest call that returned it; before any call it is infinite.
C7_BestIsEarliestMinimum ==
    IF history = <<>> THEN best_fitness = Inf
    ELSE /\ best_fitness = minFitness
         /\ p_used_bins = history[earliestBest].used_bins
         /\ p_loads = history[earliestBest].loads

C7_Witness ==
    /\ Len(history) = 3
    /\ history[2].fitness < history[1].fitness
    /\ history[3].fitness > history[2].fitness

\* C8: a failed evaluate call leaves the bin list, used_bins, the item list
\* and the record's best state as they were when it was called.
C8_FailureChangesNothing == pc = "failed" => Snapshot = snap

\* update as the claim describes it: a candidate is kept iff it is not
\* degenerate and is inside no EMS present, axis by axis
RECURSIVE appendByAxis(_, _, _)
appendByAxis(EMSs, cands, i) ==
    IF i > Len(cands) THEN EMSs
    ELSE IF /\ \A a \in 1..3 : cands[i][1][a] < cands[i][2][a]
            /\ \A j \in 1..Len(EMSs) : ~inscribedByAxis(cands[i], EMSs[j])
         THEN appendByAxis(Append(EMSs, cands[i]), cands, i + 1)
         ELSE appendByAxis(EMSs, cands, i + 1)

\* C9: update keeps each of the three candidates, X-face first, iff it has
\* positive extent on every axis and is inside no EMS then present, where
\* "inside" is tested on each axis separately.
C9_CandidateKeptIffValidByAxis ==
    [][pc = "bin" =>
          bins'[1].EMSs = appendByAxis(ListRemove(bins[1].EMSs, last'.EMS),
                                       new_EMSs(last'.item, last'.EMS), 1)]_vars

\* two boxes [pos, pos + ext) share an interior point
overlap(pos1, ext1, pos2, ext2) ==
    \A a \in 1..3 :
        /\ ext1[a] > 0
        /\ ext2[a] > 0
        /\ pos1[a] < pos2[a] + ext2[a]
        /\ pos2[a] < pos1[a] + ext1[a]

\* C10: in one bin no two placed items overlap, and every retained EMS is
\* free of placed items.
C10_NoOverlap ==
    pc = "bin" =>
        /\ \A i, j \in 1..Len(placed) :
              i < j => ~overlap(placed[i].pos, placed[i].ext,
                                placed[j].pos, placed[j].ext)
        /\ \A e \in 1..Len(bins[1].EMSs) : \A j \in 1..Len(placed) :
              ~overlap(bins[1].EMSs[e][1],
                       [a \in 1..3 |-> bins[1].EMSs[e][2][a] - bins[1].EMSs[e][1][a]],
                       placed[j].pos, placed[j].ext)

====
